---- MODULE Spec2Model ----
(***************************************************************************)
(* IAM_USER_NO_SERVICE_SPECIFIC_CREDENTIALS: a periodic AWS Config rule.   *)
(* evaluate_periodic lists the IAM users of the account (paginated) and,   *)
(* for each user, evaluate_user pages through the user's service specific  *)
(* credentials with list_service_specific_credentials.                     *)
(*                                                                         *)
(* The IAM service is the environment: what each list_users page and each  *)
(* list_service_specific_credentials call returns (or raises) is chosen    *)
(* when the call is made.  The variable calls records, like a mock's       *)
(* call list, the keyword arguments and the outcome of every credential    *)
(* call made for the principal under evaluation or just evaluated.         *)
(***************************************************************************)
EXTENDS Integers, Sequences, FiniteSets, TLC

VARIABLES
    valid_rule_parameters, \* the rule parameters dict of the run
    pc,                    \* position of evaluate_periodic
    service_name,          \* local of evaluate_periodic
    evaluations,           \* local of evaluate_periodic: the verdict list
    page,                  \* users of the current list_users page not yet evaluated
    marker,                \* local of evaluate_user
    raised,                \* the exception evaluate_periodic raised, or None
    calls,                 \* credential calls made for the principal under
                           \* evaluation, or just evaluated
    previous_fetches,      \* number of calls made for the principal before the
                           \* one calls belongs to
    enumerated,            \* every user the paginator has yielded, in order
    pages_listed,          \* number of list_users pages yielded
    listing_error,         \* the exception the user listing raised, or None
    env                    \* behaviour of the credential listing service

vars == <<valid_rule_parameters, pc, service_name, evaluations, page, marker,
          raised, calls, previous_fetches, enumerated, pages_listed,
          listing_error, env>>

-----------------------------------------------------------------------------
(* Bounds of the model *)

\* most credentials on one page of list_service_specific_credentials
MaxCreds == 2
\* most credential calls the service answers for one principal
MaxFetches == 2
\* most pages the list_users paginator yields
MaxListPages == 2

\* Python's None
None == "None"

\* the IAM users of the account; a user is listed at most once
Users == { [UserId |-> "AIDA1", UserName |-> "alice"],
           [UserId |-> "AIDA2", UserName |-> "bob"] }

\* exceptions the IAM client raises
Errors == {"ClientError", "EndpointConnectionError"}

Statuses == {"Active", "Inactive"}

\* rule parameters: ServiceName absent, a service name, the empty string, None
EmptyDict == [k \in {} |-> None]
RuleParameters ==
    {EmptyDict} \cup
    { [ServiceName |-> v] : v \in {"codecommit.amazonaws.com", "", None} }

-----------------------------------------------------------------------------
(* The IAM service *)

CredentialId(i) == "ACCA" \o ToString(i)

\* the credential lists a page can hold: the i-th credential has the i-th id
CredentialLists ==
    { [i \in 1..n |-> [ServiceSpecificCredentialId |-> CredentialId(i),
                       Status |-> st[i]]] :
        n \in 0..MaxCreds, st \in [1..MaxCreds -> Statuses] }

\* the continuation token the service hands out with page n of a listing
PageMarker(n) == "getPage" \o ToString(n + 1)

\* responses of list_service_specific_credentials to call number n for a
\* principal; IsTruncated and Marker are optional keys of the response
Responses(n) ==
    { [ServiceSpecificCredentials |-> c] : c \in CredentialLists } \cup
    { [ServiceSpecificCredentials |-> c, IsTruncated |-> t] :
        c \in CredentialLists, t \in BOOLEAN } \cup
    { [ServiceSpecificCredentials |-> c, Marker |-> PageMarker(n)] :
        c \in CredentialLists } \cup
    { [ServiceSpecificCredentials |-> c, IsTruncated |-> t,
       Marker |-> PageMarker(n)] :
        c \in CredentialLists, t \in BOOLEAN }

\* a call that raises instead of returning
Raises(e) == [raised |-> e]
IsRaise(out) == "raised" \in DOMAIN out

\* the outcomes of one credential call
FetchOutcomes(n) == Responses(n) \cup { Raises(e) : e \in Errors }

\* a page that reports more data, with a token, and holds no Active credential
EndlessResponses(n) ==
    { r \in Responses(n) :
        /\ DOMAIN r = {"ServiceSpecificCredentials", "IsTruncated", "Marker"}
        /\ r.IsTruncated
        /\ \A i \in 1..Len(r.ServiceSpecificCredentials) :
              r.ServiceSpecificCredentials[i].Status # "Active" }

\* a page that does not report more data
FinalResponses(n) ==
    { r \in Responses(n) : ~("IsTruncated" \in DOMAIN r /\ r.IsTruncated) }

\* what the service may answer to call number n + 1 for a principal:
\*   "any"      anything, for at most MaxFetches calls
\*   "finite"   anything, but a principal's listing ends by page MaxFetches
\*   "endless"  every page reports more data and holds no Active credential
Outcomes(e, n) ==
    CASE e = "any" -> IF n < MaxFetches THEN FetchOutcomes(n + 1) ELSE {}
      [] e = "finite" ->
            IF n + 1 < MaxFetches THEN FetchOutcomes(n + 1)
            ELSE FinalResponses(n + 1) \cup { Raises(x) : x \in Errors }
      [] e = "endless" -> EndlessResponses(n + 1)

\* the pages list_users can yield next: users not listed before, in any order
RECURSIVE Arrangements(_)
Arrangements(S) ==
    { <<>> } \cup
    UNION { { <<u>> \o rest : rest \in Arrangements(S \ {u}) } : u \in S }

Range(s) == { s[i] : i \in 1..Len(s) }

UserPages == Arrangements(Users \ Range(enumerated))

-----------------------------------------------------------------------------
(* The rule *)

RESOURCE_TYPE == "AWS::IAM::User"

Evaluation(complianceType, resourceId, resourceType, annotation) ==
    [complianceType |-> complianceType, resourceId |-> resourceId,
     resourceType |-> resourceType, annotation |-> annotation]

\* the keyword arguments of the outbound list_service_specific_credentials call
get_credentials_for_user(user_name, svc, mk) ==
    IF svc = None
    THEN IF mk = None
         THEN [UserName |-> user_name]
         ELSE [UserName |-> user_name, Marker |-> mk]
    ELSE IF mk = None
         THEN [UserName |-> user_name, ServiceName |-> svc]
         ELSE [UserName |-> user_name, ServiceName |-> svc, Marker |-> mk]

\* a scan that looks at the first credential of the page only
first_active_head_only(creds, i) ==
    IF Len(creds) >= 1 /\ creds[1].Status = "Active" THEN 1 ELSE 0

\* for cred in credentials['ServiceSpecificCredentials']: index of the first
\* credential whose Status is 'Active', 0 when the scan ends without one
RECURSIVE first_active(_, _)
first_active(creds, i) ==
    IF i > Len(creds) THEN 0
    ELSE IF creds[i].Status = "Active" THEN i
    ELSE first_active(creds, i + 1)

non_compliant_active(cred, user_id) ==
    Evaluation("NON_COMPLIANT", user_id, RESOURCE_TYPE,
               "Active service specific credential found: "
                   \o cred.ServiceSpecificCredentialId)

compliant(user_id) ==
    Evaluation("COMPLIANT", user_id, RESOURCE_TYPE,
               "No active ServiceSpecific credentials found")

\* a truncation test that takes a continuation token for more data
is_truncated_by_marker(credentials) == "Marker" \in DOMAIN credentials

\* a truncation test that looks at the key and not at its value
is_truncated_key_only(credentials) == "IsTruncated" \in DOMAIN credentials

\* 'IsTruncated' in credentials and credentials['IsTruncated']
is_truncated(credentials) ==
    "IsTruncated" \in DOMAIN credentials /\ credentials.IsTruncated

\* a cursor that outlives the principal it was handed out for
stale_marker(previous) == previous

\* marker = None on entry to evaluate_user
initial_marker(previous) == None

\* a loop that pages on before it reports an Active credential
evaluate_user_page_no_short_circuit(credentials, user_id) ==
    LET creds == credentials.ServiceSpecificCredentials
        k == first_active(creds, 1)
    IN  IF is_truncated(credentials)
        THEN IF "Marker" \in DOMAIN credentials
             THEN [kind |-> "continue", marker |-> credentials.Marker]
             ELSE [kind |-> "raise", error |-> "KeyError"]
        ELSE IF k # 0
             THEN [kind |-> "return",
                   value |-> non_compliant_active(creds[k], user_id)]
             ELSE [kind |-> "return", value |-> compliant(user_id)]

\* a loop that reads the token with a default and ends when there is none
evaluate_user_page_marker_optional(credentials, user_id) ==
    LET creds == credentials.ServiceSpecificCredentials
        k == first_active(creds, 1)
    IN  IF k # 0
        THEN [kind |-> "return",
              value |-> non_compliant_active(creds[k], user_id)]
        ELSE IF is_truncated(credentials) /\ "Marker" \in DOMAIN credentials
             THEN [kind |-> "continue", marker |-> credentials.Marker]
             ELSE [kind |-> "return", value |-> compliant(user_id)]

\* one pass of the while loop of evaluate_user over a returned page:
\* return a verdict, go round again with a new marker, or raise
evaluate_user_page(credentials, user_id) ==
    LET creds == credentials.ServiceSpecificCredentials
        k == first_active(creds, 1)
    IN  IF k # 0
        THEN [kind |-> "return", value |-> non_compliant_active(creds[k], user_id)]
        ELSE IF is_truncated(credentials)
             THEN IF "Marker" \in DOMAIN credentials
                  THEN [kind |-> "continue", marker |-> credentials.Marker]
                  ELSE [kind |-> "raise", error |-> "KeyError"]
             ELSE [kind |-> "return", value |-> compliant(user_id)]

\* a failed check reported as if nothing had been found
handle_credential_check_error_as_compliant(e, user_id) == compliant(user_id)

handle_credential_check_error(e, user_id) ==
    Evaluation("NON_COMPLIANT", user_id, RESOURCE_TYPE,
               "Encountered error checking credentials"
                   \o ". Check custom rule lambda logs")

\* service_name = valid_rule_parameters['ServiceName'] if present else None
get_service_name(params) ==
    IF "ServiceName" \in DOMAIN params THEN params.ServiceName ELSE None

\* a listing failure that hands back the verdicts gathered so far
on_list_users_error_return_partial(e) == [pc |-> "returned", raised |-> None]

\* except Exception as e: print(...); raise e
on_list_users_error(e) == [pc |-> "raised", raised |-> e]

-----------------------------------------------------------------------------
(* evaluate_periodic as a state machine *)

InitRun ==
    /\ valid_rule_parameters \in RuleParameters
    /\ pc = "start"
    /\ service_name = None
    /\ evaluations = <<>>
    /\ page = <<>>
    /\ marker = None
    /\ raised = None
    /\ calls = <<>>
    /\ previous_fetches = 0
    /\ enumerated = <<>>
    /\ pages_listed = 0
    /\ listing_error = None

Init == InitRun /\ env = "any"

\* the call list starts afresh when the paginator is asked for more users
ForgetCalls ==
    /\ calls' = <<>>
    /\ previous_fetches' = IF calls = <<>> THEN previous_fetches ELSE Len(calls)

\* evaluations = []; service_name = ...; iam_client = build_client('iam')
Enter ==
    /\ pc = "start"
    /\ evaluations' = <<>>
    /\ service_name' = get_service_name(valid_rule_parameters)
    /\ pc' = "paginate"
    /\ UNCHANGED <<valid_rule_parameters, page, marker, raised, calls,
                   previous_fetches, enumerated, pages_listed, listing_error,
                   env>>

\* the paginator yields the next page of users
ListUsersPage ==
    /\ pc = "paginate"
    /\ pages_listed < MaxListPages
    /\ \E p \in UserPages :
        /\ page' = p
        /\ enumerated' = enumerated \o p
        /\ pc' = IF p = <<>> THEN "paginate" ELSE "evaluate_user"
        /\ marker' = IF p = <<>> THEN marker ELSE initial_marker(marker)
    /\ pages_listed' = pages_listed + 1
    /\ ForgetCalls
    /\ UNCHANGED <<valid_rule_parameters, service_name, evaluations, raised,
                   listing_error, env>>

\* the paginator is exhausted: return evaluations
ListUsersEnd ==
    /\ pc = "paginate"
    /\ pc' = "returned"
    /\ ForgetCalls
    /\ UNCHANGED <<valid_rule_parameters, service_name, evaluations, page,
                   marker, raised, enumerated, pages_listed, listing_error,
                   env>>

\* get_paginator, paginate or the fetch of a page of users raises
ListUsersFails ==
    /\ pc = "paginate"
    /\ \E e \in Errors :
        /\ listing_error' = e
        /\ pc' = on_list_users_error(e).pc
        /\ raised' = on_list_users_error(e).raised
    /\ ForgetCalls
    /\ UNCHANGED <<valid_rule_parameters, service_name, evaluations, page,
                   marker, enumerated, pages_listed, env>>

\* a verdict list built newest first
Append_verdict_in_front(evaluation) ==
    /\ evaluations' = <<evaluation>> \o evaluations
    /\ page' = Tail(page)
    /\ pc' = IF Tail(page) = <<>> THEN "paginate" ELSE "evaluate_user"
    /\ marker' = initial_marker(marker)

\* evaluations.append(evaluation), then the next user of the page or the next
\* page
Append_verdict(evaluation) ==
    /\ evaluations' = Append(evaluations, evaluation)
    /\ page' = Tail(page)
    /\ pc' = IF Tail(page) = <<>> THEN "paginate" ELSE "evaluate_user"
    /\ marker' = initial_marker(marker)

\* the calls made so far for the principal under evaluation
CurrentCalls ==
    SelectSeq(calls, LAMBDA c : c.principal = Len(evaluations) + 1)

\* what the call list keeps of a call: everything under the "any" service,
\* under the other two only that the call was made
CallRecord(e, principal, kwargs, out) ==
    IF e = "any"
    THEN [principal |-> principal, kwargs |-> kwargs, outcome |-> out]
    ELSE [principal |-> principal]

\* one pass of the while loop of evaluate_user for the user at the head of page
FetchCredentials ==
    /\ pc = "evaluate_user"
    /\ \E out \in Outcomes(env, Len(CurrentCalls)) :
        LET user == Head(page)
            kwargs == get_credentials_for_user(user.UserName, service_name, marker)
            step == IF IsRaise(out)
                    THEN [kind |-> "raise", error |-> out.raised]
                    ELSE evaluate_user_page(out, user.UserId)
        IN  /\ calls' = IF Len(CurrentCalls) < MaxFetches
                         THEN Append(CurrentCalls,
                                     CallRecord(env, Len(evaluations) + 1,
                                                kwargs, out))
                         ELSE CurrentCalls
            /\ previous_fetches' = IF CurrentCalls = <<>> /\ calls # <<>>
                                    THEN Len(calls) ELSE previous_fetches
            /\ CASE step.kind = "continue" ->
                        /\ marker' = step.marker
                        /\ UNCHANGED <<evaluations, page, pc>>
                 [] step.kind = "return" -> Append_verdict(step.value)
                 [] step.kind = "raise" ->
                        Append_verdict(
                            handle_credential_check_error(step.error, user.UserId))
    /\ UNCHANGED <<valid_rule_parameters, service_name, raised, enumerated,
                   pages_listed, listing_error, env>>

Next ==
    \/ Enter
    \/ ListUsersPage
    \/ ListUsersEnd
    \/ ListUsersFails
    \/ FetchCredentials

Spec == Init /\ [][Next]_vars

\* the run is sequential and every call it makes returns or raises
LiveInit == InitRun /\ env \in {"finite", "endless"}
LiveSpec == LiveInit /\ [][Next]_vars /\ WF_vars(Next)

-----------------------------------------------------------------------------
(* Vocabulary of the properties: the call list read as the service saw it *)

\* the principal the call list belongs to, its user record and its verdict
Principal == calls[1].principal
Finished == calls # <<>> /\ Len(evaluations) >= Principal
Verdict == evaluations[Principal]
PrincipalUser == enumerated[Principal]

\* call i returned a page
Returned(i) == ~IsRaise(calls[i].outcome)
PageOf(i) == calls[i].outcome
CredsOf(i) == PageOf(i).ServiceSpecificCredentials

\* page i holds a credential with status Active
HasActive(i) ==
    \E j \in 1..Len(CredsOf(i)) : CredsOf(i)[j].Status = "Active"

\* the first Active credential of page i in returned order
FirstActiveOf(i) ==
    LET j == CHOOSE j \in 1..Len(CredsOf(i)) :
                 /\ CredsOf(i)[j].Status = "Active"
                 /\ \A h \in 1..(j - 1) : CredsOf(i)[h].Status # "Active"
    IN  CredsOf(i)[j]

\* page i indicates that more data exists
MoreData(i) ==
    "IsTruncated" \in DOMAIN PageOf(i) /\ PageOf(i).IsTruncated = TRUE

\* every call made for the principal returned a page
AllFetchesSucceed == \A i \in 1..Len(calls) : Returned(i)

\* every page that indicates more data carries the token to follow
ChainCanBeFollowed ==
    \A i \in 1..Len(calls) :
        Returned(i) /\ MoreData(i) => "Marker" \in DOMAIN PageOf(i)

CompliantVerdict(v) ==
    /\ v.complianceType = "COMPLIANT"
    /\ v.annotation = "No active ServiceSpecific credentials found"

ErrorVerdict(v) ==
    /\ v.complianceType = "NON_COMPLIANT"
    /\ v.annotation =
         "Encountered error checking credentials. Check custom rule lambda logs"

-----------------------------------------------------------------------------
(* C1: when the listing of principals succeeds, the returned list holds      *)
(* exactly one verdict per enumerated principal, in enumeration order: the   *)
(* i-th verdict carries the i-th principal's UserId and the resource type    *)
(* AWS::IAM::User, whatever the mix of successes and credential-check        *)
(* failures; with no principal the result is the empty list, not an error.   *)
OneVerdictPerPrincipal ==
    /\ Len(evaluations) <= Len(enumerated)
    /\ \A i \in 1..Len(evaluations) :
          /\ evaluations[i].resourceId = enumerated[i].UserId
          /\ evaluations[i].resourceType = "AWS::IAM::User"
    /\ pc = "returned" => Len(evaluations) = Len(enumerated)
    /\ pc = "raised" => listing_error # None

\* a run over two listing pages returns one failure verdict and one success
OneVerdictPerPrincipalWitness ==
    /\ pc = "returned"
    /\ pages_listed = 2
    /\ Len(evaluations) = 2
    /\ ErrorVerdict(evaluations[1])
    /\ CompliantVerdict(evaluations[2])
    /\ evaluations[1].resourceId = "AIDA2"
    /\ evaluations[2].resourceId = "AIDA1"

-----------------------------------------------------------------------------
(* C2: for a principal whose credential fetches all succeed, the verdict is  *)
(* COMPLIANT with the annotation 'No active ServiceSpecific credentials      *)
(* found' if and only if no page of the chain, followed from the first page  *)
(* to the first page that indicates no more data, holds an Active            *)
(* credential; otherwise the verdict is NON_COMPLIANT.                       *)
CompliantIffNoActive ==
    Finished /\ AllFetchesSucceed /\ ChainCanBeFollowed =>
        LET noActive == \A i \in 1..Len(calls) : ~HasActive(i)
        IN  /\ CompliantVerdict(Verdict) <=> noActive
            /\ Verdict.complianceType =
                   IF noActive THEN "COMPLIANT" ELSE "NON_COMPLIANT"
            /\ noActive => ~MoreData(Len(calls))

\* two pages of Inactive credentials, listed with a filter: COMPLIANT
CompliantIffNoActiveWitness ==
    /\ Finished /\ AllFetchesSucceed
    /\ Len(calls) = 2
    /\ "ServiceName" \in DOMAIN calls[1].kwargs
    /\ \A i \in 1..2 : Len(CredsOf(i)) > 0 /\ ~HasActive(i)
    /\ CompliantVerdict(Verdict)

-----------------------------------------------------------------------------
(* C3: evaluate_user stops at the first Active credential in returned order: *)
(* the NON_COMPLIANT annotation names the first Active credential of the     *)
(* first page that holds one, and no call follows a page that holds an       *)
(* Active credential, also when that page indicates more data.               *)
StopsAtFirstActive ==
    \A i \in 1..Len(calls) :
        Returned(i) /\ HasActive(i) =>
            /\ i = Len(calls)
            /\ Finished
            /\ Verdict.complianceType = "NON_COMPLIANT"
            /\ Verdict.annotation =
                   "Active service specific credential found: "
                       \o FirstActiveOf(i).ServiceSpecificCredentialId

\* a first page with two Active credentials that indicates more data:
\* one call, and the first credential is the one named
StopsAtFirstActiveWitness ==
    /\ Finished
    /\ Len(calls) = 1
    /\ Returned(1) /\ MoreData(1) /\ "Marker" \in DOMAIN PageOf(1)
    /\ Len(CredsOf(1)) = 2
    /\ \A j \in 1..2 : CredsOf(1)[j].Status = "Active"
    /\ Verdict.annotation = "Active service specific credential found: ACCA1"

-----------------------------------------------------------------------------
(* C4: the fetcher is invoked once per page of the chain up to the page that *)
(* ends it: every page before the last call held no Active credential and    *)
(* indicated more data; a principal whose first Active credential is on page *)
(* k is NON_COMPLIANT after exactly k calls, and one with no Active          *)
(* credential is done at the first page that indicates no more data.         *)
OneFetchPerPage ==
    /\ \A i \in 1..(Len(calls) - 1) :
          Returned(i) /\ ~HasActive(i) /\ MoreData(i)
    /\ Finished /\ AllFetchesSucceed /\ ChainCanBeFollowed =>
          LET n == Len(calls)
          IN  /\ HasActive(n) \/ ~MoreData(n)
              /\ HasActive(n) => Verdict.complianceType = "NON_COMPLIANT"
    /\ calls # <<>> /\ ~Finished =>
          Returned(Len(calls)) /\ ~HasActive(Len(calls)) /\ MoreData(Len(calls))

\* Inactive credentials on a first page with more data, an Active one on the
\* second page: NON_COMPLIANT after exactly two calls
OneFetchPerPageWitness ==
    /\ Finished
    /\ Len(calls) = 2
    /\ Returned(1) /\ Len(CredsOf(1)) > 0 /\ ~HasActive(1) /\ MoreData(1)
    /\ Returned(2) /\ HasActive(2)
    /\ Verdict.complianceType = "NON_COMPLIANT"

-----------------------------------------------------------------------------
(* Contained credential-check failures *)

\* the verdict a principal's own pages call for
VerdictOfOwnPages ==
    IF \E i \in 1..Len(calls) : ~Returned(i)
    THEN [complianceType |-> "NON_COMPLIANT",
          resourceId |-> PrincipalUser.UserId,
          resourceType |-> "AWS::IAM::User",
          annotation |-> "Encountered error checking credentials. Check custom rule lambda logs"]
    ELSE IF \E i \in 1..Len(calls) : HasActive(i)
    THEN LET i == CHOOSE i \in 1..Len(calls) :
                      HasActive(i) /\ \A h \in 1..(i - 1) : ~HasActive(h)
         IN  [complianceType |-> "NON_COMPLIANT",
              resourceId |-> PrincipalUser.UserId,
              resourceType |-> "AWS::IAM::User",
              annotation |-> "Active service specific credential found: "
                                \o FirstActiveOf(i).ServiceSpecificCredentialId]
    ELSE [complianceType |-> "COMPLIANT",
          resourceId |-> PrincipalUser.UserId,
          resourceType |-> "AWS::IAM::User",
          annotation |-> "No active ServiceSpecific credentials found"]

FailureContainedState ==
    /\ \A i \in 1..Len(calls) :
          ~Returned(i) =>
              /\ i = Len(calls)
              /\ Finished
              /\ pc \in {"evaluate_user", "paginate"}
              /\ pc = "evaluate_user" <=> page # <<>>
              /\ raised = None
              /\ marker = None
    /\ Finished /\ ChainCanBeFollowed => Verdict = VerdictOfOwnPages

FailureContainedStep ==
    \A i \in 1..Len(evaluations) :
        Len(evaluations') >= i /\ evaluations'[i] = evaluations[i]

(* C5: a failure raised by a credential fetch, on the first or a later page, *)
(* is contained to its principal: the verdict is NON_COMPLIANT with the      *)
(* annotation 'Encountered error checking credentials. Check custom rule     *)
(* lambda logs', no further fetch is issued for the principal, the run goes  *)
(* on with the next principal, and every other principal's verdict is what   *)
(* its own pages give, untouched by the failure.                             *)
FailureContained ==
    []FailureContainedState /\ [][FailureContainedStep]_vars

\* the first principal fails on its second page; the second principal, on
\* the same listing page, is then found COMPLIANT after two calls of its own
FailureContainedWitness ==
    /\ Finished
    /\ Principal = 2
    /\ pages_listed = 1
    /\ previous_fetches = 2
    /\ ErrorVerdict(evaluations[1])
    /\ Len(calls) = 2
    /\ AllFetchesSucceed
    /\ CompliantVerdict(evaluations[2])

-----------------------------------------------------------------------------
(* C6: a failure of the principal listing, on the first or a later listing   *)
(* page and after any number of evaluated principals, makes evaluate_periodic*)
(* raise that same error; a run in which the listing failed never returns a  *)
(* verdict list, not even a partial one.                                     *)
ListingFailureIsFatal ==
    /\ listing_error # None => pc = "raised" /\ raised = listing_error
    /\ pc = "returned" => listing_error = None /\ raised = None

\* the listing fails on its second page, after a principal was evaluated
ListingFailureIsFatalWitness ==
    /\ pc = "raised"
    /\ raised = "EndpointConnectionError"
    /\ pages_listed = 1
    /\ Len(evaluations) = 1

-----------------------------------------------------------------------------
(* C7: no outbound credential-listing call passes an empty or null           *)
(* ServiceName: for every rule-parameter input (key absent, a name, the      *)
(* empty string, null) the call omits the argument or passes a non-empty     *)
(* name, and it omits the argument whenever the filter is unset.             *)
FilterNeverEmptyOrNull ==
    \A i \in 1..Len(calls) :
        LET kwargs == calls[i].kwargs
        IN  /\ "ServiceName" \in DOMAIN kwargs =>
                  kwargs.ServiceName # "" /\ kwargs.ServiceName # None
            /\ "ServiceName" \notin DOMAIN valid_rule_parameters =>
                  "ServiceName" \notin DOMAIN kwargs

-----------------------------------------------------------------------------
(* C8: the first credential fetch for every principal omits the cursor, also *)
(* right after a principal whose pagination advanced the cursor or whose     *)
(* fetch failed; every later fetch for the principal passes the token of the *)
(* page returned just before it; every fetch is keyed by the principal's     *)
(* UserName and carries the same run-wide filter.                            *)
CursorDiscipline ==
    \A i \in 1..Len(calls) :
        LET kwargs == calls[i].kwargs
        IN  /\ i = 1 => "Marker" \notin DOMAIN kwargs
            /\ i > 1 =>
                  /\ "Marker" \in DOMAIN kwargs
                  /\ Returned(i - 1)
                  /\ "Marker" \in DOMAIN PageOf(i - 1)
                  /\ kwargs.Marker = PageOf(i - 1).Marker
            /\ kwargs.UserName = PrincipalUser.UserName
            /\ "ServiceName" \in DOMAIN kwargs =>
                  /\ "ServiceName" \in DOMAIN valid_rule_parameters
                  /\ kwargs.ServiceName = valid_rule_parameters.ServiceName
            /\ ("ServiceName" \in DOMAIN kwargs)
                  <=> ("ServiceName" \in DOMAIN calls[1].kwargs)

\* the first principal failed on its second page, with the cursor advanced;
\* the second principal's first call has no Marker and its second call has
\* the token of its own first page
CursorDisciplineWitness ==
    /\ Len(calls) = 2
    /\ Principal = 2
    /\ previous_fetches = 2
    /\ ErrorVerdict(evaluations[1])
    /\ "Marker" \notin DOMAIN calls[1].kwargs
    /\ calls[2].kwargs.Marker = "getPage2"
    /\ calls[2].kwargs.UserName = "alice"
    /\ "ServiceName" \in DOMAIN calls[2].kwargs

-----------------------------------------------------------------------------
(* C9: a page without the IsTruncated key is treated like a page with        *)
(* IsTruncated false: when it holds no Active credential evaluate_user stops *)
(* fetching and returns COMPLIANT, also when the page carries a Marker.      *)
MissingIndicatorEndsChain ==
    \A i \in 1..Len(calls) :
        /\ Returned(i)
        /\ ~HasActive(i)
        /\ \/ "IsTruncated" \notin DOMAIN PageOf(i)
           \/ PageOf(i).IsTruncated = FALSE
        => /\ i = Len(calls)
           /\ Finished
           /\ CompliantVerdict(Verdict)

\* a second page with Inactive credentials, a Marker and no IsTruncated key
MissingIndicatorEndsChainWitness ==
    /\ Finished
    /\ Len(calls) = 2
    /\ Returned(2)
    /\ DOMAIN PageOf(2) = {"ServiceSpecificCredentials", "Marker"}
    /\ Len(CredsOf(2)) > 0 /\ ~HasActive(2)
    /\ CompliantVerdict(Verdict)

-----------------------------------------------------------------------------
(* Termination *)

RunFinished == pc \in {"returned", "raised"}

StaysInLoop ==
    env = "endless" /\ pc = "evaluate_user" =>
        /\ pc' = "evaluate_user"
        /\ evaluations' = evaluations
        /\ page' = page

(* C10: when the principal listing is finite and every credential listing    *)
(* reaches a page without the more-data indicator, the run finishes          *)
(* (returns or raises) and a principal is done with the page that ends its   *)
(* listing; the evaluator has no bound of its own: while every page reports  *)
(* more data and holds no Active credential it stays in the fetch loop.      *)
Termination ==
    /\ env = "finite" => <>RunFinished
    /\ [](env = "finite" /\ Len(calls) = MaxFetches => Finished)
    /\ [][StaysInLoop]_vars
    /\ [](env = "endless" /\ pc = "evaluate_user" => ENABLED FetchCredentials)

\* a finite run returns after paging to the end for both principals
TerminationWitness ==
    /\ env = "finite"
    /\ pc = "returned"
    /\ Len(evaluations) = 2
    /\ previous_fetches = MaxFetches
    /\ CompliantVerdict(evaluations[1])

-----------------------------------------------------------------------------
(* C11: a page that indicates more data but carries no Marker, and holds no  *)
(* Active credential, neither aborts the run nor yields COMPLIANT: the       *)
(* error is caught at the per-principal boundary, the principal gets the     *)
(* NON_COMPLIANT 'check logs' verdict after that call, and the run goes on   *)
(* to the remaining principals.                                              *)
MissingMarkerIsContained ==
    \A i \in 1..Len(calls) :
        /\ Returned(i)
        /\ ~HasActive(i)
        /\ MoreData(i)
        /\ "Marker" \notin DOMAIN PageOf(i)
        => /\ i = Len(calls)
           /\ Finished
           /\ ErrorVerdict(Verdict)
           /\ Verdict.resourceId = PrincipalUser.UserId
           /\ raised = None /\ listing_error = None
           /\ pc \in {"evaluate_user", "paginate"}
           /\ pc = "evaluate_user" <=> page # <<>>
           /\ page # <<>> => marker = None /\ ENABLED FetchCredentials
           /\ page = <<>> => ENABLED ListUsersEnd

\* the first principal's second page reports more data without a Marker;
\* the second principal of the same listing page is up next
MissingMarkerIsContainedWitness ==
    /\ Finished
    /\ Principal = 1
    /\ Len(calls) = 2
    /\ Returned(2) /\ ~HasActive(2) /\ MoreData(2)
    /\ "Marker" \notin DOMAIN PageOf(2)
    /\ ErrorVerdict(evaluations[1])
    /\ page # <<>>
    /\ pc = "evaluate_user"

====
